---------------------------- MODULE Spec2Model ----------------------------
(***************************************************************************)
(* The dual-backend project store of nexusai-maker.                        *)
(*   src/unnamed/part_000 : the store that tries the remote "project"      *)
(*                          collection first and falls back to             *)
(*                          localStorage, with the start-up normaliser and *)
(*                          the local->remote sync                         *)
(*   src/nexus.jsx        : the local-only variant of the same API         *)
(*                                                                         *)
(* JavaScript values are strings: "undefined" and "null" are the two       *)
(* absent markers, "true"/"false" the booleans, anything else a string.    *)
(* A JavaScript object is a function from its own keys to values; a key    *)
(* outside DOMAIN reads as "undefined".                                    *)
(***************************************************************************)
EXTENDS Integers, Sequences, FiniteSets, TLC

\* ------------------------------------------------------------------ bounds
MaxOps == 3      \* process starts and API calls explored in one behaviour
MaxTasks == 2    \* API calls in flight at the same time

\* ------------------------------------------------------- JavaScript values
EmptyObj == [k \in {} |-> "undefined"]

Get(o, k) == IF k \in DOMAIN o THEN o[k] ELSE "undefined"

\* ToBoolean on the modelled values
Truthy(v) == v \notin {"undefined", "null", "", "false"}

\* a || b
Or(a, b) == IF Truthy(a) THEN a ELSE b

\* { ...a, ...b }
Spread(a, b) == b @@ a

\* delete o[k]
Delete(o, k) == [x \in DOMAIN o \ {k} |-> o[x]]

\* JSON.parse(JSON.stringify(o)): keys whose value is undefined are dropped
JsonObj(o) == [k \in {x \in DOMAIN o : o[x] # "undefined"} |-> o[k]]

JsonArr(arr) == [i \in 1..Len(arr) |-> JsonObj(arr[i])]

\* arr.findIndex(p => p.id === id), 1-based, 0 for -1
FindIndex(arr, id) ==
  IF \E i \in 1..Len(arr) : Get(arr[i], "id") = id
  THEN CHOOSE i \in 1..Len(arr) :
         /\ Get(arr[i], "id") = id
         /\ \A j \in 1..(i - 1) : Get(arr[j], "id") # id
  ELSE 0

\* arr.filter(p => p.public)
RECURSIVE FilterPublic(_)
FilterPublic(arr) ==
  IF arr = <<>> THEN <<>>
  ELSE IF Truthy(Get(Head(arr), "public"))
       THEN <<Head(arr)>> \o FilterPublic(Tail(arr))
       ELSE FilterPublic(Tail(arr))

\* mutant: the splice also drops every record after the index
Splice_Tail(arr, idx) == SubSeq(arr, 1, idx - 1)

\* arr.splice(idx, 1)
Splice(arr, idx) == SubSeq(arr, 1, idx - 1) \o SubSeq(arr, idx + 1, Len(arr))

\* uuid("local"): the n-th identifier minted on this device
uuid(n) == "L" \o ToString(n)

\* the id the remote collection assigns to its n-th created record
RemoteId(n) == "R" \o ToString(n)

\* a 201-character description and its first 200 characters
LongDesc == "long-description-of-201-chars"
LongDescHead == "long-description-first-200"

\* s.slice(0, 200)
Slice200(s) == IF s = LongDesc THEN LongDescHead ELSE s

\* String.prototype.toLowerCase on the names used here
ToLowerCase(s) ==
  CASE s \in {"Bob", "BOB"} -> "bob"
    [] s = "Ann" -> "ann"
    [] s = "@Random_User_1" -> "@random_user_1"
    [] s = "Sort" -> "sort"
    [] OTHER -> s

\* ------------------------------------------------------------------ inputs
\* nowISO() values
Times == {"t1"}

\* what localStorage can hold when a process starts: written by this or an
\* older version of the program (records without id, without public, with
\* the legacy preview_image key); the two records were made from the same
\* form, so they share title and created_at
LegacyStores ==
  { <<>>,
    <<[title |-> "Demo", desc |-> "x", created_at |-> "t0"],
      [id |-> "L0", title |-> "Demo", desc |-> LongDesc, created_at |-> "t0",
       public |-> "false", preview_image |-> "old.png"]>> }

\* what the shared remote collection can hold at that time: nothing, or a
\* record with an id and one without
RemoteStores ==
  { <<>>,
    <<[id |-> "R0", title |-> "B", created_at |-> "t0", public |-> "yes"],
      [title |-> "Demo", created_at |-> "t0", public |-> "false"]>> }

\* createProject payloads; EmptyObj also stands for a non-object payload
Payloads ==
  { EmptyObj,
    [title |-> "B", public |-> "yes"],
    [id |-> "R0", title |-> "A", previewText |-> "pt"] }

\* payloads made of the documented fields only (part_000 line 139)
ValidPayload(p) == "id" \notin DOMAIN p

\* updateProject updates
Updates == { [title |-> "B"] }

\* ids callers pass
IdArgs == {"", "L1", "R0", "R1"}

\* isOwner arguments: the project (<<>> when null or undefined) and the
\* identifier ("undefined" when missing)
OwnerProjects ==
  { <<>>, <<EmptyObj>>, <<[author |-> ""]>>, <<[author |-> "bob"]>>,
    <<[author |-> "Bob"]>>, <<[author |-> "ann"]>>,
    <<[title |-> "A", author |-> "BOB"]>> }

OwnerIdentifiers ==
  {"undefined", "", "bob", "Bob", "BOB", "ann", "@random_user_1",
   "@Random_User_1"}

\* createUser / signIn arguments
Usernames == {"", "ann", "Ann", "bob"}
Passwords == {"", "p", "q"}

\* ------------------------------------------------------------------- state
VARIABLES
  local,         \* localStorage["nexus_public_projects"], parsed
  remote,        \* the remote "project" collection
  quota,         \* localStorage.setItem throws
  user,          \* localStorage["nexus_user"]: "null" or the username
  WebsimSocket,  \* window.WebsimSocket is present
  websimRoom,    \* the cached room handle is set
  nextLocal,     \* uuid("local") calls made
  nextRemote,    \* records the remote has created
  starts,        \* process starts so far
  sync,          \* syncLocalToRemote: pc, arr, idx, remoteKeys
  event,         \* detail of the last "nexus:projects:updated" event
  ret,           \* the last API call and what it returned
  hist,          \* the state that call started from
  created,       \* the last createProject result, until the next call
  tryLog,        \* the creates sync attempted since the last create, update
                 \* or delete: the pass, the position of the local record,
                 \* and whether the create resolved
  pushLog,       \* the pushes of sync since the last create, update or delete:
                 \* the pass (process start), the local record, its
                 \* position, whether the Local Record Store still held it,
                 \* whether that pass had listed the remote collection, and
                 \* the position of the created record in it
  ghLocal,       \* the store of the local-only variant, run in lockstep
  ghRet,         \* what the local-only variant returned
  noRemote,      \* no remote call has succeeded so far
  ops,           \* process starts and API calls so far
  accounts,      \* localStorage["nexus_accounts"], parsed
  acct,          \* the last account call, its arguments and its answer
  owner,         \* the last isOwner call, its arguments and its answer
  tasks,         \* the API calls in flight, each suspended at an await
  microtasks,    \* the calls whose awaited promise has settled, in the
                 \* order their continuations will run
  groups,        \* PublicPrivate: the keys of the toggle groups bound so far
  hidden,        \* the value of each hidden input of the page
  style,         \* which button of each group is highlighted
  timeouts,      \* the setTimeout(..., 0) callbacks not yet run, in order
  pp,            \* the last PublicPrivate call, click or callback
  lastSet,       \* per hidden input, the value of the last setPublic that
                 \* returned true, until the next click on the group
  learnedPatterns, \* CustomCodeAI: the Map filled by learnPattern
  ai             \* the last CustomCodeAI call and what it returned

\* the state the project store's synchronous view does not touch
aside == <<accounts, acct, owner, tasks, microtasks,
           groups, hidden, style, timeouts, pp, lastSet, learnedPatterns, ai>>

\* the toggle helper and the code generator of src/PublicPrivate.js
helpers == <<groups, hidden, style, timeouts, pp, lastSet, learnedPatterns, ai>>

\* the project store
projects == <<local, remote, quota, WebsimSocket, websimRoom, nextLocal,
              nextRemote, starts, sync, event, ret, hist, created, pushLog, tryLog,
              ghLocal, ghRet, noRemote, ops>>

vars == <<local, remote, quota, user, WebsimSocket, websimRoom, nextLocal,
          nextRemote, starts, sync, event, ret, hist, created, pushLog, tryLog,
          ghLocal, ghRet, noRemote, ops, aside>>


\* the caller-visible result of an API call
Ret(op, id, status, source, project, list) ==
  [op |-> op, id |-> id, status |-> status, source |-> source,
   project |-> project, list |-> list]

NoRet == Ret("none", "", "none", "none", <<>>, <<>>)

\* no account or isOwner call has been made
NoCall == [op |-> "none"]

\* what the caller of the store sees of a result
Visible(r) == [status |-> r.status, source |-> r.source,
               project |-> r.project, list |-> r.list]

\* what is remembered of a call besides its result: the state it started
\* from (local, remote, room), the identifier uuid("local") gave it (minted),
\* whether it called getRoom (probed), whether its remote call resolved
\* (remoteOk), whether it called writeLocalProjects (wrote), the publicOnly
\* option, whether an initializeNexus followed an initializeNexus with no
\* API call between them (rerun), and whether localStorage.setItem was
\* throwing (full), and the updates argument
Hist ==
  [local |-> local, remote |-> remote, room |-> websimRoom, minted |-> "",
   probed |-> TRUE, remoteOk |-> FALSE, wrote |-> FALSE, publicOnly |-> FALSE,
   rerun |-> FALSE, full |-> quota, updates |-> EmptyObj]

\* -------------------------------------------------- local record store
\* readLocalProjects(): the parsed collection (this program is the only
\* writer of the key, so the stored text always parses)
readLocalProjects(store) == store

\* mutant: the write goes through although setItem throws
writeLocalProjects_IgnoreQuota(arr, store, full) == JsonArr(arr)

\* writeLocalProjects(arr): the new content of the key
writeLocalProjects(arr, store, full) == IF full THEN store ELSE JsonArr(arr)

\* the "nexus:projects:updated" event writeLocalProjects dispatches
writeEvent(arr, ev, full) == IF full THEN ev ELSE <<arr>>

\* ------------------------------------------------ remote collection client
\* getRoom(): whether a room handle is returned; the handle is cached
getRoom(cached, capability, ctorOk) == cached \/ (capability /\ ctorOk)

\* col.get(id) / col.getList().find(x => x.id === id)
RemoteGet(col, id) ==
  IF FindIndex(col, id) = 0 THEN <<>> ELSE <<col[FindIndex(col, id)]>>

\* col.create(data): the server stores the data under an id it assigns
RemoteCreated(data, n) == Spread(JsonObj(data), "id" :> RemoteId(n))

\* col.update(id, data) on a collection that resolves for an unknown id
RemoteUpdated(col, id, data) ==
  IF FindIndex(col, id) = 0 THEN <<>>
  ELSE <<Spread(Spread(col[FindIndex(col, id)], JsonObj(data)), "id" :> id)>>

RemoteAfterUpdate(col, id, data) ==
  IF FindIndex(col, id) = 0 THEN col
  ELSE [col EXCEPT ![FindIndex(col, id)] = RemoteUpdated(col, id, data)[1]]

\* col.delete(id)
RemoteAfterDelete(col, id) ==
  IF FindIndex(col, id) = 0 THEN col ELSE Splice(col, FindIndex(col, id))

\* --------------------------------------------- the store, src/unnamed/part_000
\* getProject's argument check
getProjectRaises(projectId) == ~Truthy(projectId)

\* mutant: the argument check is missing
mutatorRaises_Never(projectId) == FALSE

\* updateProject's and deleteProject's argument check
mutatorRaises(projectId) == ~Truthy(projectId)

\* mutant: the remote collection is never asked
getProject_LocalOnly(projectId, store, col, remoteOk) ==
  IF FindIndex(store, projectId) # 0
  THEN Ret("getProject", projectId, "ok", "local",
           <<store[FindIndex(store, projectId)]>>, <<>>)
  ELSE Ret("getProject", projectId, "null", "none", <<>>, <<>>)

\* mutant: the local copy is preferred to the remote one
getProject_LocalFirst(projectId, store, col, remoteOk) ==
  IF FindIndex(store, projectId) # 0
  THEN Ret("getProject", projectId, "ok", "local",
           <<store[FindIndex(store, projectId)]>>, <<>>)
  ELSE IF remoteOk /\ RemoteGet(col, projectId) # <<>>
       THEN Ret("getProject", projectId, "ok", "websim",
                RemoteGet(col, projectId), <<>>)
       ELSE Ret("getProject", projectId, "null", "none", <<>>, <<>>)

\* getProject(projectId), past the argument check
getProject(projectId, store, col, remoteOk) ==
  IF remoteOk /\ RemoteGet(col, projectId) # <<>>
  THEN Ret("getProject", projectId, "ok", "websim", RemoteGet(col, projectId), <<>>)
  ELSE IF FindIndex(readLocalProjects(store), projectId) # 0
       THEN Ret("getProject", projectId, "ok", "local",
                <<store[FindIndex(store, projectId)]>>, <<>>)
       ELSE Ret("getProject", projectId, "null", "none", <<>>, <<>>)

\* mutant: the remote list is completed with the records stored locally
listProjects_Merged(publicOnly, store, col, remoteOk) ==
  LET all == IF remoteOk THEN col \o readLocalProjects(store)
             ELSE readLocalProjects(store)
  IN IF publicOnly THEN FilterPublic(all) ELSE all

\* listProjects(opts)
listProjects(publicOnly, store, col, remoteOk) ==
  IF remoteOk
  THEN IF publicOnly THEN FilterPublic(col) ELSE col
  ELSE IF publicOnly THEN FilterPublic(readLocalProjects(store))
       ELSE readLocalProjects(store)

\* createProject: projectData
projectData(base, now) ==
  Spread(base, "created_at" :> Or(Get(base, "created_at"), now))

\* mutant: public is not defaulted
newProject_NoDefault(id, data) == Spread("id" :> id, data)

\* createProject: newProject of the local path
newProject(id, data) ==
  Spread(Spread("id" :> id, data),
         "public" :> (IF Get(data, "public") # "undefined"
                      THEN Get(data, "public") ELSE "true"))

\* mutant: the stored record is replaced by the updates alone
updatedProject_Replace(old, updates, now) ==
  Spread(updates, "updated_at" :> now)

\* updateProject: the record written by the local path
updatedProject(old, updates, now) ==
  Spread(Spread(old, updates), "updated_at" :> now)

\* NexusAPI.isOwner(project, currentUserIdentifier): "true" or "false"
isOwner(project, currentUserIdentifier) ==
  IF project = <<>> \/ ~Truthy(currentUserIdentifier) THEN "false"
  ELSE LET identifier == ToLowerCase(currentUserIdentifier)
           author == ToLowerCase(Or(Get(project[1], "author"), ""))
       IN IF identifier = "@random_user_1" THEN "true"
          ELSE IF author = identifier THEN "true" ELSE "false"

\* createUser answers with an error: a field is missing or the key is taken
createUserFails(accts, username, password) ==
  \/ ~Truthy(username) \/ ~Truthy(password)
  \/ ToLowerCase(username) \in DOMAIN accts

\* createUser: accounts[key] = { username, pass, created_at }
createdAccount(accts, username, password, now) ==
  Spread(accts, ToLowerCase(username) :>
                  [username |-> username, pass |-> password, created_at |-> now])

\* saveAccounts(obj): the new content of the key
saveAccounts(obj, accts, full) == IF full THEN accts ELSE obj

\* mutant: the password is not compared
signInFails_AnyPassword(accts, username, password) ==
  \/ ~Truthy(username) \/ ~Truthy(password)
  \/ ToLowerCase(username) \notin DOMAIN accts

\* signIn answers with an error: a field is missing, the account is unknown
\* or the password differs
signInFails(accts, username, password) ==
  \/ ~Truthy(username) \/ ~Truthy(password)
  \/ ToLowerCase(username) \notin DOMAIN accts
  \/ accts[ToLowerCase(username)].pass # password

\* ------------------------------------------- the local-only store, src/nexus.jsx
GH_isOwner(project, currentUserIdentifier) ==
  IF project = <<>> \/ ~Truthy(currentUserIdentifier) THEN "false"
  ELSE LET identifier == ToLowerCase(currentUserIdentifier)
           author == ToLowerCase(Or(Get(project[1], "author"), ""))
       IN IF author = identifier THEN "true" ELSE "false"

GH_getProject(projectId, store) ==
  IF FindIndex(store, projectId) # 0
  THEN Ret("getProject", projectId, "ok", "local",
           <<store[FindIndex(store, projectId)]>>, <<>>)
  ELSE Ret("getProject", projectId, "null", "none", <<>>, <<>>)

GH_listProjects(publicOnly, store) ==
  IF publicOnly THEN FilterPublic(store) ELSE store

GH_newProject(id, base, now) ==
  Spread(Spread(Spread("id" :> id, base),
                "created_at" :> Or(Get(base, "created_at"), now)),
         "public" :> (IF Get(base, "public") # "undefined"
                      THEN Get(base, "public") ELSE "true"))

GH_updatedProject(old, updates, now) ==
  Spread(Spread(old, updates), "updated_at" :> now)

\* ------------------------------------------------ start-up normaliser
\* mutant: the changed flag is raised for every record
NormalizeRecord_AlwaysChanged(r, id) ==
  LET needId == ~Truthy(Get(r, "id"))
      r1 == IF needId THEN Spread(r, "id" :> id) ELSE r
      r2 == IF Get(r1, "public") = "undefined"
            THEN Spread(r1, "public" :> "true") ELSE r1
      r3 == IF Get(r2, "previewImage") = "undefined"
               /\ Truthy(Get(r2, "preview_image"))
            THEN Delete(Spread(r2, "previewImage" :> "null"), "preview_image")
            ELSE r2
  IN [rec |-> r3, changed |-> TRUE, minted |-> IF needId THEN 1 ELSE 0]

\* one iteration of initializeNexus's loop; id is the identifier uuid("local")
\* returns if it is called
NormalizeRecord(r, id) ==
  LET needId == ~Truthy(Get(r, "id"))
      r1 == IF needId THEN Spread(r, "id" :> id) ELSE r
      needPublic == Get(r1, "public") = "undefined"
      r2 == IF needPublic THEN Spread(r1, "public" :> "true") ELSE r1
      needImage == Get(r2, "previewImage") = "undefined"
                   /\ Truthy(Get(r2, "preview_image"))
      r3 == IF needImage
            THEN Delete(Spread(r2, "previewImage" :> "null"), "preview_image")
            ELSE r2
  IN [rec |-> r3, changed |-> needId \/ needPublic \/ needImage,
      minted |-> IF needId THEN 1 ELSE 0]

\* the whole loop over arr, n uuid("local") calls made before it
RECURSIVE Normalize(_, _)
Normalize(arr, n) ==
  IF arr = <<>> THEN [arr |-> <<>>, changed |-> FALSE, n |-> n]
  ELSE LET h == NormalizeRecord(Head(arr), uuid(n + 1))
           t == Normalize(Tail(arr), n + h.minted)
       IN [arr |-> <<h.rec>> \o t.arr, changed |-> h.changed \/ t.changed,
           n |-> t.n]


\* ------------------------------------------------ local->remote sync
\* the deployment this page is served from, and the one sync knows by name
Hostname == "localhost"
SyncHost == "p3cfvpusg_uifu6tvg0x.c.websim.com"

\* pc, the arr initializeNexus hands over, the loop index, remoteKeys, and
\* whether getList resolved
NoSync == [pc |-> "idle", arr |-> <<>>, idx |-> 0, keys |-> {}, listed |-> FALSE]

\* the key of a remote record in remoteKeys
RemoteKey(r) ==
  IF Truthy(Get(r, "id")) THEN "id:" \o Get(r, "id")
  ELSE "t:" \o Or(Get(r, "title"), "") \o "|" \o Or(Get(r, "created_at"), "")

\* localKeyAlt
LocalKeyAlt(p) ==
  "t:" \o Or(Get(p, "title"), "") \o "|" \o Or(Get(p, "created_at"), "")

\* the test that skips a local record
AlreadySynced(p, keys) ==
  \/ Truthy(Get(p, "id")) /\ ("id:" \o Get(p, "id")) \in keys
  \/ LocalKeyAlt(p) \in keys

\* defaultAuthor
DefaultAuthor(host, usr) ==
  IF host = SyncHost THEN host ELSE IF usr # "null" THEN usr ELSE ""

\* mutant: the record keeps its own public flag
SyncPayload_KeepsPublic(p, author, now) ==
  [title |-> Or(Get(p, "title"), "Untitled"),
   desc |-> Or(Get(p, "desc"), ""),
   author |-> Or(Get(p, "author"), author),
   public |-> Get(p, "public"),
   created_at |-> Or(Get(p, "created_at"), now),
   previewImage |-> "null",
   previewText |-> Or(Get(p, "previewText"),
                      Or(Get(p, "preview_text"),
                         Slice200(Or(Get(p, "desc"), "")))),
   previewHtml |-> Or(Get(p, "previewHtml"), Or(Get(p, "preview_html"), ""))]

\* the payload sync sends for a local record
SyncPayload(p, author, now) ==
  [title |-> Or(Get(p, "title"), "Untitled"),
   desc |-> Or(Get(p, "desc"), ""),
   author |-> Or(Get(p, "author"), author),
   public |-> "true",
   created_at |-> Or(Get(p, "created_at"), now),
   previewImage |-> "null",
   previewText |-> Or(Get(p, "previewText"),
                      Or(Get(p, "preview_text"),
                         Slice200(Or(Get(p, "desc"), "")))),
   previewHtml |-> Or(Get(p, "previewHtml"), Or(Get(p, "preview_html"), ""))]

\* the key added to remoteKeys after a successful create
CreatedKey(rec, p) ==
  IF Truthy(Get(rec, "id")) THEN "id:" \o Get(rec, "id") ELSE LocalKeyAlt(p)

\* ------------------------------------ the toggle helper, src/PublicPrivate.js
\* the hidden inputs of the page
HiddenIds == {"projPublic", "editProjPublic"}

\* the ids setPublic and isPublic are called with
ToggleIds == HiddenIds \cup {"nope"}

\* the config objects of the two toggle groups, and one without a button id
ProjConfig ==
  [publicBtnId |-> "projPublicBtn", privateBtnId |-> "projPrivateBtn",
   hiddenInputId |-> "projPublic"]

EditConfig ==
  [publicBtnId |-> "editProjPublicBtn", privateBtnId |-> "editProjPrivateBtn",
   hiddenInputId |-> "editProjPublic"]

NoButtonConfig ==
  [publicBtnId |-> "", privateBtnId |-> "projPrivateBtn",
   hiddenInputId |-> "projPublic"]

\* the arrays PublicPrivate.init is called with
ConfigLists ==
  { <<ProjConfig, EditConfig>>, <<EditConfig>>, <<NoButtonConfig, ProjConfig>> }

\* the value attribute a hidden input has in the page
HiddenValues == {"", "true", "false"}

\* bindGroup: key
GroupKey(publicBtnId, privateBtnId, hiddenInputId) ==
  IF Truthy(hiddenInputId) THEN hiddenInputId
  ELSE publicBtnId \o "|" \o privateBtnId

\* setPublicValue: hidden.value = makePublic ? 'true' : 'false'
HiddenValue(makePublic) == IF makePublic THEN "true" ELSE "false"

\* applyVisual: the button that gets the highlight colour
Visual(makePublic) == IF makePublic THEN "public" ELSE "private"

\* the 'publicprivate:changed' event setPublicValue dispatches
ChangedEvent(id, makePublic) == <<[id |-> id, public |-> makePublic]>>

\* bindGroup on st = [groups, timeouts], with the hidden inputs dom: an
\* existing group is returned as it is; a new one reads its initial value from
\* the hidden input and defers setPublicValue(initial, true) with setTimeout
bindGroup(st, cfg, dom) ==
  LET key == GroupKey(cfg.publicBtnId, cfg.privateBtnId, cfg.hiddenInputId)
      initial == ~(dom[key] = "false")
  IN IF key \in st.groups THEN st
     ELSE [groups |-> st.groups \cup {key},
           timeouts |-> Append(st.timeouts, [key |-> key, initial |-> initial])]

\* PublicPrivate.init: configs.forEach, skipping a config without button ids
RECURSIVE BindAll(_, _, _)
BindAll(st, configs, dom) ==
  IF configs = <<>> THEN st
  ELSE LET cfg == Head(configs)
       IN BindAll(IF ~Truthy(cfg.publicBtnId) \/ ~Truthy(cfg.privateBtnId)
                  THEN st ELSE bindGroup(st, cfg, dom),
                  Tail(configs), dom)

\* PublicPrivate.isPublic(hiddenInputIdOrKey)
isPublic(key, grps, dom) ==
  IF key \in grps THEN dom[key] = "true"
  ELSE IF key \in DOMAIN dom THEN dom[key] = "true"
       ELSE TRUE

\* a PublicPrivate call, click or callback and what it returned and dispatched
ToggleCall(op, id, value, result, ev) ==
  [op |-> op, id |-> id, value |-> value, result |-> result, event |-> ev]

\* ---------------------------------------- CustomCodeAI, src/PublicPrivate.js
\* prompts, as their words
Prompts == { <<"sort", "numbers">>, <<"Sort", "numbers">>, <<"python", "loop">> }

\* the code learnPattern is given
Codes == {"c1", "c2"}

\* prompt.toLowerCase()
PromptLower(prompt) == [i \in DOMAIN prompt |-> ToLowerCase(prompt[i])]

\* prompt.includes(word), for the words the code looks for
Includes(prompt, word) == \E i \in DOMAIN prompt : prompt[i] = word

\* parsePrompt: language
Language(prompt) ==
  IF Includes(prompt, "javascript") THEN "javascript"
  ELSE IF Includes(prompt, "python") THEN "python"
  ELSE IF Includes(prompt, "html") THEN "html"
  ELSE IF Includes(prompt, "css") THEN "css"
  ELSE IF Includes(prompt, "java") THEN "java"
  ELSE IF Includes(prompt, "c++") THEN "c++"
  ELSE "javascript"

\* detectCodeType
detectCodeType(prompt) ==
  IF Includes(prompt, "function") \/ Includes(prompt, "method") THEN "function"
  ELSE IF Includes(prompt, "class") \/ Includes(prompt, "object") THEN "class"
  ELSE IF Includes(prompt, "loop") \/ Includes(prompt, "iterate") THEN "loop"
  ELSE IF Includes(prompt, "array") \/ Includes(prompt, "list") THEN "array"
  ELSE IF Includes(prompt, "http") \/ Includes(prompt, "api")
          \/ Includes(prompt, "request") THEN "http"
  ELSE IF Includes(prompt, "html") \/ Includes(prompt, "page") THEN "html"
  ELSE IF Includes(prompt, "sort") \/ Includes(prompt, "algorithm")
       THEN "algorithm"
  ELSE "general"

\* parsePrompt(prompt)
parsePrompt(prompt) ==
  LET lower == PromptLower(prompt)
  IN [language |-> Language(lower), codeType |-> detectCodeType(lower),
      originalPrompt |-> lower]

\* formatCode(code, language) over the template of the detected type
formatCode(codeType, language) ==
  "// Generated by Custom AI Code Generator // Language: " \o language
    \o " // " \o codeType

\* generateCode(prompt) with the Map learned
generateCode(prompt, learned) ==
  LET parsed == parsePrompt(prompt)
  IN IF parsed.originalPrompt \in DOMAIN learned
     THEN learned[parsed.originalPrompt]
     ELSE formatCode(parsed.codeType, parsed.language)

\* learnPattern: this.learnedPatterns.set(prompt, code)
learnPattern(prompt, code, learned) == Spread(learned, prompt :> code)

\* a CustomCodeAI call and what it returned
AiCall(op, prompt, code, result) ==
  [op |-> op, prompt |-> prompt, code |-> code, result |-> result]

\* src/PublicPrivate.js as loaded: no group bound, nothing learned
HelpersIdle ==
  /\ groups = {}
  /\ hidden = [id \in HiddenIds |-> ""]
  /\ style = [id \in HiddenIds |-> ""]
  /\ timeouts = <<>>
  /\ pp = NoCall
  /\ lastSet = [id \in HiddenIds |-> "none"]
  /\ learnedPatterns = <<>>
  /\ ai = NoCall

\* ------------------------------------------------------------------- Init
Init ==
  /\ local \in LegacyStores
  /\ remote \in RemoteStores
  /\ quota = FALSE
  /\ user = "null"
  /\ WebsimSocket = FALSE
  /\ websimRoom = FALSE
  /\ nextLocal = 0
  /\ nextRemote = 0
  /\ starts = 0
  /\ sync = NoSync
  /\ event = <<>>
  /\ ret = NoRet
  /\ hist = [local |-> <<>>, remote |-> <<>>, room |-> FALSE, minted |-> "",
             probed |-> FALSE, remoteOk |-> FALSE, wrote |-> FALSE,
             publicOnly |-> FALSE, rerun |-> FALSE, full |-> FALSE,
             updates |-> EmptyObj]
  /\ created = <<>>
  /\ pushLog = <<>>
  /\ tryLog = <<>>
  /\ ghLocal = local
  /\ ghRet = Visible(NoRet)
  /\ noRemote = TRUE
  /\ ops = 0
  /\ accounts = EmptyObj
  /\ acct = NoCall
  /\ owner = NoCall
  /\ tasks = <<>>
  /\ microtasks = <<>>
  /\ HelpersIdle

\* the lockstep run of the local-only variant ends with the first remote answer
Lockstep(still, store, seen) ==
  /\ noRemote' = still
  /\ ghLocal' = IF still THEN store ELSE <<>>
  /\ ghRet' = IF still THEN seen ELSE Visible(NoRet)

\* ----------------------------------------------------------- environment
\* outcomes of new window.WebsimSocket(): it is only called when no handle is
\* cached and the capability is present
CtorOutcomes == IF websimRoom \/ ~WebsimSocket THEN {TRUE} ELSE BOOLEAN

\* outcomes of a call on the remote collection: resolves (TRUE) or throws
CallOutcomes(ctorOk) ==
  IF getRoom(websimRoom, WebsimSocket, ctorOk) THEN BOOLEAN ELSE {FALSE}

\* the remote capability appears or disappears
ToggleCapability ==
  /\ WebsimSocket' = ~WebsimSocket
  /\ UNCHANGED <<local, remote, quota, user, aside, websimRoom, nextLocal, nextRemote,
                 starts, sync, event, ret, hist, created, pushLog, tryLog, ghLocal,
                 ghRet, noRemote, ops>>

\* localStorage fills up: setItem throws from now on
ExceedQuota ==
  /\ ~quota
  /\ quota' = TRUE
  /\ UNCHANGED <<local, remote, user, aside, WebsimSocket, websimRoom, nextLocal,
                 nextRemote, starts, sync, event, ret, hist, created, pushLog, tryLog,
                 ghLocal, ghRet, noRemote, ops>>

\* --------------------------------------------------------- process start
\* mutant: syncLocalToRemote is launched on the stored records before the
\* normaliser has persisted them or emitted its event
InitializeNexus_SyncFirst ==
  /\ ops < MaxOps
  /\ ops' = ops + 1
  /\ LET n == Normalize(readLocalProjects(local), nextLocal)
         g == Normalize(ghLocal, nextLocal)
     IN /\ local' = local
        /\ event' = event
        /\ nextLocal' = n.n
        /\ sync' = [pc |-> "start", arr |-> readLocalProjects(local), idx |-> 0,
                    keys |-> {}, listed |-> FALSE]
        /\ ret' = Ret("initializeNexus", "", "ok", "none", <<>>, <<>>)
        /\ hist' = [Hist EXCEPT !.probed = FALSE, !.wrote = n.changed,
                                 !.rerun = (ret.op = "initializeNexus")]
        /\ Lockstep(noRemote,
                    IF g.changed THEN writeLocalProjects(g.arr, ghLocal, quota)
                    ELSE ghLocal,
                    Visible(ret'))
  /\ websimRoom' = FALSE
  /\ starts' = starts + 1
  /\ created' = <<>>
  /\ UNCHANGED <<remote, quota, user, aside, WebsimSocket, nextRemote, pushLog, tryLog>>

\* initializeNexus, up to the launch of syncLocalToRemote; both variants
InitializeNexus ==
  /\ ops < MaxOps
  /\ ops' = ops + 1
  /\ LET n == Normalize(readLocalProjects(local), nextLocal)
         g == Normalize(ghLocal, nextLocal)
     IN /\ local' = IF n.changed THEN writeLocalProjects(n.arr, local, quota)
                    ELSE local
        /\ event' = <<n.arr>>
        /\ nextLocal' = n.n
        /\ sync' = [pc |-> "start", arr |-> n.arr, idx |-> 0, keys |-> {},
                    listed |-> FALSE]
        /\ ret' = Ret("initializeNexus", "", "ok", "none", <<>>, <<>>)
        /\ hist' = [Hist EXCEPT !.probed = FALSE, !.wrote = n.changed,
                                 !.rerun = (ret.op = "initializeNexus")]
        /\ Lockstep(noRemote,
                    IF g.changed THEN writeLocalProjects(g.arr, ghLocal, quota)
                    ELSE ghLocal,
                    Visible(ret'))
  /\ websimRoom' = FALSE
  /\ starts' = starts + 1
  /\ created' = <<>>
  /\ UNCHANGED <<remote, quota, user, aside, WebsimSocket, nextRemote, pushLog, tryLog>>

\* syncLocalToRemote: getRoom, getList, remoteKeys
SyncStart(ctorOk, listOk) ==
  /\ sync.pc = "start"
  /\ LET room == getRoom(websimRoom, WebsimSocket, ctorOk)
         remoteList == IF listOk THEN remote ELSE <<>>
     IN /\ websimRoom' = room
        /\ sync' = IF ~room THEN [sync EXCEPT !.pc = "done"]
                   ELSE [sync EXCEPT
                           !.pc = IF Len(sync.arr) = 0 THEN "done" ELSE "push",
                           !.idx = 1,
                           !.listed = listOk,
                           !.keys = {RemoteKey(remoteList[i]) :
                                       i \in 1..Len(remoteList)}]
        /\ Lockstep(noRemote /\ ~(room /\ listOk), ghLocal, ghRet)
  /\ UNCHANGED <<local, remote, quota, user, aside, WebsimSocket, nextLocal,
                 nextRemote, starts, event, ret, hist, created, pushLog, tryLog, ops>>

\* mutant: a pushed record is marked as synced in the Local Record Store
SyncPush_MarksSynced(now, createOk) ==
  /\ sync.pc = "push"
  /\ LET localP == sync.arr[sync.idx]
         skip == AlreadySynced(localP, sync.keys)
         ok == ~skip /\ createOk
         rec == RemoteCreated(
                  SyncPayload(localP, DefaultAuthor(Hostname, user), now),
                  nextRemote + 1)
     IN /\ remote' = IF ok THEN Append(remote, rec) ELSE remote
        /\ nextRemote' = IF ok THEN nextRemote + 1 ELSE nextRemote
        /\ pushLog' = IF ok
                      THEN Append(pushLog, [idx |-> sync.idx,
                                            listed |-> sync.listed,
                                            pass |-> starts,
                                            localP |-> localP,
                                            present |-> FindIndex(
                                              readLocalProjects(local),
                                              Get(localP, "id")) # 0,
                                            at |-> Len(remote) + 1])
                      ELSE pushLog
        /\ tryLog' = IF skip THEN tryLog
                     ELSE Append(tryLog, [pass |-> starts, idx |-> sync.idx,
                                          ok |-> createOk])
        /\ sync' = [sync EXCEPT
                      !.keys = IF ok THEN @ \cup {CreatedKey(rec, localP)} ELSE @,
                      !.idx = @ + 1,
                      !.pc = IF sync.idx = Len(sync.arr) THEN "done" ELSE "push"]
        /\ Lockstep(noRemote /\ ~ok, ghLocal, ghRet)
        /\ local' = IF ok /\ sync.idx <= Len(local)
                    THEN [local EXCEPT ![sync.idx] = Spread(@, "synced" :> "true")]
                    ELSE local
  /\ UNCHANGED <<quota, user, aside, WebsimSocket, websimRoom, nextLocal,
                 starts, event, ret, hist, created, ops>>

\* mutant: the first create that fails ends the pass
SyncPush_StopsOnFailure(now, createOk) ==
  /\ sync.pc = "push"
  /\ LET localP == sync.arr[sync.idx]
         skip == AlreadySynced(localP, sync.keys)
         ok == ~skip /\ createOk
         rec == RemoteCreated(
                  SyncPayload(localP, DefaultAuthor(Hostname, user), now),
                  nextRemote + 1)
     IN /\ remote' = IF ok THEN Append(remote, rec) ELSE remote
        /\ nextRemote' = IF ok THEN nextRemote + 1 ELSE nextRemote
        /\ pushLog' = IF ok
                      THEN Append(pushLog, [idx |-> sync.idx,
                                            listed |-> sync.listed,
                                            pass |-> starts,
                                            localP |-> localP,
                                            present |-> FindIndex(
                                              readLocalProjects(local),
                                              Get(localP, "id")) # 0,
                                            at |-> Len(remote) + 1])
                      ELSE pushLog
        /\ tryLog' = IF skip THEN tryLog
                     ELSE Append(tryLog, [pass |-> starts, idx |-> sync.idx,
                                          ok |-> createOk])
        /\ sync' = [sync EXCEPT
                      !.keys = IF ok THEN @ \cup {CreatedKey(rec, localP)} ELSE @,
                      !.idx = @ + 1,
                      !.pc = IF sync.idx = Len(sync.arr) \/ (~skip /\ ~createOk)
                             THEN "done" ELSE "push"]
        /\ Lockstep(noRemote /\ ~ok, ghLocal, ghRet)
  /\ UNCHANGED <<local, quota, user, aside, WebsimSocket, websimRoom, nextLocal,
                 starts, event, ret, hist, created, ops>>

\* syncLocalToRemote: one iteration of the loop over arr
SyncPush(now, createOk) ==
  /\ sync.pc = "push"
  /\ LET localP == sync.arr[sync.idx]
         skip == AlreadySynced(localP, sync.keys)
         ok == ~skip /\ createOk
         rec == RemoteCreated(
                  SyncPayload(localP, DefaultAuthor(Hostname, user), now),
                  nextRemote + 1)
     IN /\ remote' = IF ok THEN Append(remote, rec) ELSE remote
        /\ nextRemote' = IF ok THEN nextRemote + 1 ELSE nextRemote
        /\ pushLog' = IF ok
                      THEN Append(pushLog, [idx |-> sync.idx,
                                            listed |-> sync.listed,
                                            pass |-> starts,
                                            localP |-> localP,
                                            present |-> FindIndex(
                                              readLocalProjects(local),
                                              Get(localP, "id")) # 0,
                                            at |-> Len(remote) + 1])
                      ELSE pushLog
        /\ tryLog' = IF skip THEN tryLog
                     ELSE Append(tryLog, [pass |-> starts, idx |-> sync.idx,
                                          ok |-> createOk])
        /\ sync' = [sync EXCEPT
                      !.keys = IF ok THEN @ \cup {CreatedKey(rec, localP)} ELSE @,
                      !.idx = @ + 1,
                      !.pc = IF sync.idx = Len(sync.arr) THEN "done" ELSE "push"]
        /\ Lockstep(noRemote /\ ~ok, ghLocal, ghRet)
  /\ UNCHANGED <<local, quota, user, aside, WebsimSocket, websimRoom, nextLocal,
                 starts, event, ret, hist, created, ops>>


\* ------------------------------------------------------------ API calls
Raised(op, id) == Ret(op, id, "raised", "none", <<>>, <<>>)

\* a call that throws "Missing project ID" before it does anything
RaiseOnly(op, id) ==
  /\ ret' = Raised(op, id)
  /\ hist' = [Hist EXCEPT !.probed = FALSE]
  /\ created' = IF op = "getProject" THEN created ELSE <<>>
  /\ Lockstep(noRemote, ghLocal, Visible(Raised(op, id)))
  /\ UNCHANGED <<local, remote, quota, user, aside, WebsimSocket, websimRoom,
                 nextLocal, nextRemote, starts, sync, event, pushLog, tryLog>>

GetProject(id, ctorOk, callOk) ==
  /\ starts > 0
  /\ ops < MaxOps
  /\ ops' = ops + 1
  /\ IF getProjectRaises(id) THEN RaiseOnly("getProject", id)
     ELSE LET room == getRoom(websimRoom, WebsimSocket, ctorOk)
              remoteOk == room /\ callOk
          IN /\ websimRoom' = room
             /\ ret' = getProject(id, local, remote, remoteOk)
             /\ hist' = [Hist EXCEPT !.remoteOk = remoteOk]
             /\ Lockstep(noRemote /\ ~remoteOk, ghLocal,
                         Visible(GH_getProject(id, ghLocal)))
             /\ UNCHANGED <<local, remote, quota, user, aside, WebsimSocket, nextLocal,
                            nextRemote, starts, sync, event, created, pushLog, tryLog>>

ListProjects(publicOnly, ctorOk, callOk) ==
  /\ starts > 0
  /\ ops < MaxOps
  /\ ops' = ops + 1
  /\ LET room == getRoom(websimRoom, WebsimSocket, ctorOk)
         remoteOk == room /\ callOk
     IN /\ websimRoom' = room
        /\ ret' = Ret("listProjects", "", "ok",
                      IF remoteOk THEN "websim" ELSE "local", <<>>,
                      listProjects(publicOnly, local, remote, remoteOk))
        /\ hist' = [Hist EXCEPT !.remoteOk = remoteOk,
                                 !.publicOnly = publicOnly]
        /\ Lockstep(noRemote /\ ~remoteOk, ghLocal,
                    Visible(Ret("listProjects", "", "ok", "local", <<>>,
                                GH_listProjects(publicOnly, ghLocal))))
  /\ created' = <<>>
  /\ UNCHANGED <<local, remote, quota, user, aside, WebsimSocket, nextLocal,
                 nextRemote, starts, sync, event, pushLog, tryLog>>

CreateProject(payload, now, ctorOk, callOk) ==
  /\ starts > 0
  /\ ops < MaxOps
  /\ ops' = ops + 1
  /\ LET data == projectData(payload, now)
         room == getRoom(websimRoom, WebsimSocket, ctorOk)
         remoteOk == room /\ callOk
         rec == RemoteCreated(data, nextRemote + 1)
         id == uuid(nextLocal + 1)
         np == newProject(id, data)
         arr == <<np>> \o readLocalProjects(local)
         gnp == GH_newProject(id, payload, now)
         r == IF remoteOk
              THEN Ret("createProject", "", "ok", "websim", <<rec>>, <<>>)
              ELSE Ret("createProject", "", "ok", "local", <<np>>, <<>>)
     IN /\ websimRoom' = room
        /\ remote' = IF remoteOk THEN Append(remote, rec) ELSE remote
        /\ nextRemote' = IF remoteOk THEN nextRemote + 1 ELSE nextRemote
        /\ local' = IF remoteOk THEN local
                    ELSE writeLocalProjects(arr, local, quota)
        /\ event' = IF remoteOk THEN event ELSE writeEvent(arr, event, quota)
        /\ nextLocal' = IF remoteOk THEN nextLocal ELSE nextLocal + 1
        /\ ret' = r
        /\ hist' = [Hist EXCEPT !.remoteOk = remoteOk, !.wrote = ~remoteOk,
                                 !.minted = IF remoteOk THEN "" ELSE id]
        /\ created' = <<[id |-> Get(r.project[1], "id"), project |-> r.project[1],
                         source |-> r.source, valid |-> ValidPayload(payload)]>>
        /\ Lockstep(noRemote /\ ~remoteOk,
                    writeLocalProjects(<<gnp>> \o ghLocal, ghLocal, quota),
                    Visible(Ret("createProject", "", "ok", "local", <<gnp>>, <<>>)))
  /\ pushLog' = <<>>
  /\ tryLog' = <<>>
  /\ UNCHANGED <<quota, user, aside, WebsimSocket, starts, sync>>

\* updateProject(projectId, updates), called as op
UpdateCall(op, id, updates, now, ctorOk, callOk) ==
  /\ starts > 0
  /\ ops < MaxOps
  /\ ops' = ops + 1
  /\ IF mutatorRaises(id) THEN RaiseOnly(op, id)
     ELSE LET room == getRoom(websimRoom, WebsimSocket, ctorOk)
              remoteOk == room /\ callOk
              data == Spread(updates, "updated_at" :> now)
              arr == readLocalProjects(local)
              idx == FindIndex(arr, id)
              upd == updatedProject(arr[idx], updates, now)
              gidx == FindIndex(ghLocal, id)
              gupd == GH_updatedProject(ghLocal[gidx], updates, now)
              found == ~remoteOk /\ idx # 0
          IN /\ websimRoom' = room
             /\ remote' = IF remoteOk THEN RemoteAfterUpdate(remote, id, data)
                          ELSE remote
             /\ local' = IF found
                         THEN writeLocalProjects([arr EXCEPT ![idx] = upd],
                                                 local, quota)
                         ELSE local
             /\ event' = IF found
                         THEN writeEvent([arr EXCEPT ![idx] = upd], event, quota)
                         ELSE event
             /\ ret' = IF remoteOk
                       THEN Ret(op, id, "ok", "websim",
                                RemoteUpdated(remote, id, data), <<>>)
                       ELSE IF idx = 0
                            THEN Ret(op, id, "notfound", "none", <<>>, <<>>)
                            ELSE Ret(op, id, "ok", "local", <<upd>>, <<>>)
             /\ hist' = [Hist EXCEPT !.remoteOk = remoteOk, !.wrote = found,
                                      !.updates = updates]
             /\ created' = <<>>
             /\ pushLog' = <<>>
             /\ tryLog' = <<>>
             /\ Lockstep(noRemote /\ ~remoteOk,
                         IF gidx = 0 THEN ghLocal
                         ELSE writeLocalProjects([ghLocal EXCEPT ![gidx] = gupd],
                                                 ghLocal, quota),
                         IF gidx = 0
                         THEN Visible(Ret(op, id, "notfound", "none", <<>>, <<>>))
                         ELSE Visible(Ret(op, id, "ok", "local", <<gupd>>, <<>>)))
             /\ UNCHANGED <<quota, user, aside, WebsimSocket, nextLocal, nextRemote,
                            starts, sync>>

UpdateProject(id, updates, now, ctorOk, callOk) ==
  UpdateCall("updateProject", id, updates, now, ctorOk, callOk)

\* togglePublic(projectId, makePublic)
TogglePublic(id, makePublic, now, ctorOk, callOk) ==
  UpdateCall("togglePublic", id,
             [public |-> IF makePublic THEN "true" ELSE "false"],
             now, ctorOk, callOk)

\* mutant: a delete served by the remote collection also removes the record
\* from the local store
DeleteProject_AlsoLocal(id, ctorOk, callOk) ==
  /\ starts > 0
  /\ ops < MaxOps
  /\ ops' = ops + 1
  /\ IF mutatorRaises(id) THEN RaiseOnly("deleteProject", id)
     ELSE LET room == getRoom(websimRoom, WebsimSocket, ctorOk)
              remoteOk == room /\ callOk
              arr == readLocalProjects(local)
              idx == FindIndex(arr, id)
              gidx == FindIndex(ghLocal, id)
              found == idx # 0
          IN /\ websimRoom' = room
             /\ remote' = IF remoteOk THEN RemoteAfterDelete(remote, id)
                          ELSE remote
             /\ local' = IF found
                         THEN writeLocalProjects(Splice(arr, idx), local, quota)
                         ELSE local
             /\ event' = IF found
                         THEN writeEvent(Splice(arr, idx), event, quota)
                         ELSE event
             /\ ret' = IF remoteOk
                       THEN Ret("deleteProject", id, "ok", "websim", <<>>, <<>>)
                       ELSE IF idx = 0
                            THEN Ret("deleteProject", id, "notfound", "none",
                                     <<>>, <<>>)
                            ELSE Ret("deleteProject", id, "ok", "local", <<>>, <<>>)
             /\ hist' = [Hist EXCEPT !.remoteOk = remoteOk, !.wrote = found]
             /\ created' = <<>>
             /\ pushLog' = <<>>
             /\ tryLog' = <<>>
             /\ Lockstep(noRemote /\ ~remoteOk,
                         IF gidx = 0 THEN ghLocal
                         ELSE writeLocalProjects(Splice(ghLocal, gidx),
                                                 ghLocal, quota),
                         IF gidx = 0
                         THEN Visible(Ret("deleteProject", id, "notfound", "none",
                                          <<>>, <<>>))
                         ELSE Visible(Ret("deleteProject", id, "ok", "local",
                                          <<>>, <<>>)))
             /\ UNCHANGED <<quota, user, aside, WebsimSocket, nextLocal, nextRemote,
                            starts, sync>>

DeleteProject(id, ctorOk, callOk) ==
  /\ starts > 0
  /\ ops < MaxOps
  /\ ops' = ops + 1
  /\ IF mutatorRaises(id) THEN RaiseOnly("deleteProject", id)
     ELSE LET room == getRoom(websimRoom, WebsimSocket, ctorOk)
              remoteOk == room /\ callOk
              arr == readLocalProjects(local)
              idx == FindIndex(arr, id)
              gidx == FindIndex(ghLocal, id)
              found == ~remoteOk /\ idx # 0
          IN /\ websimRoom' = room
             /\ remote' = IF remoteOk THEN RemoteAfterDelete(remote, id)
                          ELSE remote
             /\ local' = IF found
                         THEN writeLocalProjects(Splice(arr, idx), local, quota)
                         ELSE local
             /\ event' = IF found
                         THEN writeEvent(Splice(arr, idx), event, quota)
                         ELSE event
             /\ ret' = IF remoteOk
                       THEN Ret("deleteProject", id, "ok", "websim", <<>>, <<>>)
                       ELSE IF idx = 0
                            THEN Ret("deleteProject", id, "notfound", "none",
                                     <<>>, <<>>)
                            ELSE Ret("deleteProject", id, "ok", "local", <<>>, <<>>)
             /\ hist' = [Hist EXCEPT !.remoteOk = remoteOk, !.wrote = found]
             /\ created' = <<>>
             /\ pushLog' = <<>>
             /\ tryLog' = <<>>
             /\ Lockstep(noRemote /\ ~remoteOk,
                         IF gidx = 0 THEN ghLocal
                         ELSE writeLocalProjects(Splice(ghLocal, gidx),
                                                 ghLocal, quota),
                         IF gidx = 0
                         THEN Visible(Ret("deleteProject", id, "notfound", "none",
                                          <<>>, <<>>))
                         ELSE Visible(Ret("deleteProject", id, "ok", "local",
                                          <<>>, <<>>)))
             /\ UNCHANGED <<quota, user, aside, WebsimSocket, nextLocal, nextRemote,
                            starts, sync>>

\* ------------------------------------------------------------ specification
Next ==
  \/ ToggleCapability
  \/ InitializeNexus
  \/ \E ctorOk \in CtorOutcomes : \E listOk \in CallOutcomes(ctorOk) :
       SyncStart(ctorOk, listOk)
  \/ \E now \in Times, createOk \in BOOLEAN : SyncPush(now, createOk)
  \/ \E id \in IdArgs : \E ctorOk \in CtorOutcomes :
       \E callOk \in CallOutcomes(ctorOk) : GetProject(id, ctorOk, callOk)
  \/ \E publicOnly \in BOOLEAN : \E ctorOk \in CtorOutcomes :
       \E callOk \in CallOutcomes(ctorOk) :
         ListProjects(publicOnly, ctorOk, callOk)
  \/ \E payload \in Payloads, now \in Times : \E ctorOk \in CtorOutcomes :
       \E callOk \in CallOutcomes(ctorOk) :
         CreateProject(payload, now, ctorOk, callOk)
  \/ \E id \in IdArgs, updates \in Updates, now \in Times :
       \E ctorOk \in CtorOutcomes : \E callOk \in CallOutcomes(ctorOk) :
         UpdateProject(id, updates, now, ctorOk, callOk)
  \/ \E id \in IdArgs, makePublic \in BOOLEAN, now \in Times :
       \E ctorOk \in CtorOutcomes : \E callOk \in CallOutcomes(ctorOk) :
         TogglePublic(id, makePublic, now, ctorOk, callOk)
  \/ \E id \in IdArgs : \E ctorOk \in CtorOutcomes :
       \E callOk \in CallOutcomes(ctorOk) : DeleteProject(id, ctorOk, callOk)

Spec == Init /\ [][Next]_vars

\* ------------------------------------------------------------ ownership
IsOwner(project, identifier) ==
  /\ owner' = [op |-> "isOwner", project |-> project, identifier |-> identifier,
               result |-> isOwner(project, identifier)]
  /\ UNCHANGED <<projects, user, accounts, acct, tasks, microtasks, helpers>>

GH_IsOwner(project, identifier) ==
  /\ owner' = [op |-> "nexus.isOwner", project |-> project,
               identifier |-> identifier,
               result |-> GH_isOwner(project, identifier)]
  /\ UNCHANGED <<projects, user, accounts, acct, tasks, microtasks, helpers>>

NextOwner ==
  \E project \in OwnerProjects, identifier \in OwnerIdentifiers :
    \/ IsOwner(project, identifier)
    \/ GH_IsOwner(project, identifier)

SpecOwner == Init /\ [][NextOwner]_vars

\* ------------------------------------------------------------- accounts
AccountCall(op, username, password, status) ==
  [op |-> op, username |-> username, password |-> password, status |-> status]

\* createUser(username, password); saveAccounts swallows a throwing setItem,
\* while the session marker is written outside any try, so a throwing setItem
\* there reaches the caller. markerOk: the setItem of the session marker goes
\* through (with the storage full, the small marker may still fit)
CreateUser(username, password, now, markerOk) ==
  /\ IF createUserFails(accounts, username, password)
     THEN /\ acct' = AccountCall("createUser", username, password, "fail")
          /\ UNCHANGED <<accounts, user>>
     ELSE /\ accounts' = saveAccounts(
                            createdAccount(accounts, username, password, now),
                            accounts, quota)
          /\ user' = IF markerOk THEN username ELSE user
          /\ acct' = AccountCall("createUser", username, password,
                                 IF markerOk THEN "ok" ELSE "raised")
  /\ UNCHANGED <<projects, owner, tasks, microtasks, helpers>>

SignIn(username, password, markerOk) ==
  /\ IF signInFails(accounts, username, password)
     THEN /\ acct' = AccountCall("signIn", username, password, "fail")
          /\ user' = user
     ELSE /\ user' = IF markerOk THEN username ELSE user
          /\ acct' = AccountCall("signIn", username, password,
                                 IF markerOk THEN "ok" ELSE "raised")
  /\ UNCHANGED <<projects, accounts, owner, tasks, microtasks, helpers>>

SignOut ==
  /\ user' = "null"
  /\ acct' = AccountCall("signOut", "", "", "ok")
  /\ UNCHANGED <<projects, accounts, owner, tasks, microtasks, helpers>>

GetCurrentUser ==
  /\ acct' = AccountCall("getCurrentUser", user, "", "ok")
  /\ UNCHANGED <<projects, user, accounts, owner, tasks, microtasks, helpers>>

\* outcomes of localStorage.setItem for the session marker: it goes through
\* while there is room; once the storage is full it may throw or still fit
MarkerOutcomes == IF quota THEN BOOLEAN ELSE {TRUE}

\* localStorage fills up while accounts are in use
AccountsExceedQuota ==
  /\ ~quota
  /\ quota' = TRUE
  /\ UNCHANGED <<local, remote, user, aside, WebsimSocket, websimRoom, nextLocal,
                 nextRemote, starts, sync, event, ret, hist, created, pushLog, tryLog,
                 ghLocal, ghRet, noRemote, ops>>

NextAccounts ==
  \/ \E username \in Usernames, password \in Passwords, now \in Times,
          markerOk \in MarkerOutcomes :
       CreateUser(username, password, now, markerOk)
  \/ \E username \in Usernames, password \in Passwords,
          markerOk \in MarkerOutcomes :
       SignIn(username, password, markerOk)
  \/ SignOut
  \/ GetCurrentUser
  \/ AccountsExceedQuota

SpecAccounts == Init /\ [][NextAccounts]_vars

\* ------------------------------------------------- calls in flight
\* The mutating calls of NexusAPI as the event loop runs them: a call runs
\* until its next await, the continuation of a settled await is a microtask,
\* microtasks run in the order they were queued, and the answer of the remote
\* collection arrives when no microtask is left.

\* ids passed to the calls in flight
TaskIds == {"L0", "L1"}

\* a call and its position: awaiting getRoom ("room"), the remote call
\* ("remote", then "resolved" or "rejected"), readLocalProjects ("read"),
\* writeLocalProjects ("written"), or returned ("done")
Task(kind, id, arg, now, room) ==
  [kind |-> kind, id |-> id, arg |-> arg, now |-> now, room |-> room,
   pc |-> "room", arr |-> <<>>, status |-> "pending", source |-> "none",
   project |-> <<>>]

\* the stores a started process has normalised
StartedStores == {Normalize(s, 0) : s \in LegacyStores}

InitTasks ==
  /\ \E n \in StartedStores :
       /\ local = n.arr
       /\ nextLocal = n.n
       /\ event = <<n.arr>>
       /\ ghLocal = n.arr
  /\ remote = <<>>
  /\ quota = FALSE
  /\ user = "null"
  /\ WebsimSocket \in BOOLEAN
  /\ websimRoom = FALSE
  /\ nextRemote = 0
  /\ starts = 1
  /\ sync = [NoSync EXCEPT !.pc = "done"]
  /\ ret = Ret("initializeNexus", "", "ok", "none", <<>>, <<>>)
  /\ hist = [local |-> <<>>, remote |-> <<>>, room |-> FALSE, minted |-> "",
             probed |-> FALSE, remoteOk |-> FALSE, wrote |-> FALSE,
             publicOnly |-> FALSE, rerun |-> FALSE, full |-> FALSE,
             updates |-> EmptyObj]
  /\ created = <<>>
  /\ pushLog = <<>>
  /\ tryLog = <<>>
  /\ ghRet = Visible(ret)
  /\ noRemote = TRUE
  /\ ops = 1
  /\ accounts = EmptyObj
  /\ acct = NoCall
  /\ owner = NoCall
  /\ tasks = <<>>
  /\ microtasks = <<>>
  /\ HelpersIdle

\* what the calls in flight leave alone
taskFrame == <<quota, user, WebsimSocket, starts, sync, ret, hist, created,
               pushLog, tryLog, ghLocal, ghRet, noRemote, ops, accounts, acct, owner,
               helpers>>

\* createProject, updateProject or deleteProject is called: it runs up to
\* `await getRoom()`
StartCall(kind, id, arg, now, ctorOk) ==
  /\ Len(tasks) < MaxTasks
  /\ LET room == getRoom(websimRoom, WebsimSocket, ctorOk)
     IN /\ websimRoom' = room
        /\ tasks' = Append(tasks, Task(kind, id, arg, now, room))
        /\ microtasks' = Append(microtasks, Len(tasks) + 1)
  /\ UNCHANGED <<local, remote, nextLocal, nextRemote, event, taskFrame>>

\* the array a call at "read" writes, and the record it answers with
TaskWrite(t, n) ==
  LET idx == FindIndex(t.arr, t.id)
  IN CASE t.kind = "create" ->
            LET np == newProject(uuid(n + 1), projectData(t.arg, t.now))
            IN [found |-> TRUE, arr |-> <<np>> \o t.arr, project |-> <<np>>]
       [] t.kind = "update" /\ idx # 0 ->
            LET upd == updatedProject(t.arr[idx], t.arg, t.now)
            IN [found |-> TRUE, arr |-> [t.arr EXCEPT ![idx] = upd],
                project |-> <<upd>>]
       [] t.kind = "delete" /\ idx # 0 ->
            [found |-> TRUE, arr |-> Splice(t.arr, idx), project |-> <<>>]
       [] OTHER -> [found |-> FALSE, arr |-> t.arr, project |-> <<>>]

\* the first microtask runs: the continuation of the call at the head
RunMicrotask ==
  /\ microtasks # <<>>
  /\ LET i == Head(microtasks)
         t == tasks[i]
         rest == Tail(microtasks)
         w == TaskWrite(t, nextLocal)
     IN CASE t.pc = "room" /\ t.room ->
               /\ tasks' = [tasks EXCEPT ![i].pc = "remote"]
               /\ microtasks' = rest
               /\ UNCHANGED <<local, nextLocal, event>>
          [] t.pc \in {"room", "rejected"} /\ ~(t.pc = "room" /\ t.room) ->
               /\ tasks' = [tasks EXCEPT ![i].pc = "read",
                                         ![i].arr = readLocalProjects(local)]
               /\ microtasks' = Append(rest, i)
               /\ UNCHANGED <<local, nextLocal, event>>
          [] t.pc = "read" /\ w.found ->
               /\ local' = writeLocalProjects(w.arr, local, quota)
               /\ event' = writeEvent(w.arr, event, quota)
               /\ nextLocal' = IF t.kind = "create" THEN nextLocal + 1
                                ELSE nextLocal
               /\ tasks' = [tasks EXCEPT ![i].pc = "written",
                                         ![i].project = w.project]
               /\ microtasks' = Append(rest, i)
          [] t.pc = "read" /\ ~w.found ->
               /\ tasks' = [tasks EXCEPT ![i].pc = "done",
                                         ![i].status = "notfound"]
               /\ microtasks' = rest
               /\ UNCHANGED <<local, nextLocal, event>>
          [] t.pc = "written" ->
               /\ tasks' = [tasks EXCEPT ![i].pc = "done", ![i].status = "ok",
                                         ![i].source = "local"]
               /\ microtasks' = rest
               /\ UNCHANGED <<local, nextLocal, event>>
          [] t.pc = "resolved" ->
               /\ tasks' = [tasks EXCEPT ![i].pc = "done", ![i].status = "ok",
                                         ![i].source = "websim"]
               /\ microtasks' = rest
               /\ UNCHANGED <<local, nextLocal, event>>
  /\ UNCHANGED <<remote, websimRoom, nextRemote, taskFrame>>

\* the remote collection answers the call of task i
RemoteSettles(i, callOk) ==
  /\ microtasks = <<>>
  /\ i \in 1..Len(tasks)
  /\ tasks[i].pc = "remote"
  /\ LET t == tasks[i]
         rec == RemoteCreated(projectData(t.arg, t.now), nextRemote + 1)
         data == Spread(t.arg, "updated_at" :> t.now)
     IN IF callOk
        THEN /\ remote' = CASE t.kind = "create" -> Append(remote, rec)
                            [] t.kind = "update" ->
                                 RemoteAfterUpdate(remote, t.id, data)
                            [] OTHER -> RemoteAfterDelete(remote, t.id)
             /\ nextRemote' = IF t.kind = "create" THEN nextRemote + 1
                               ELSE nextRemote
             /\ tasks' = [tasks EXCEPT
                            ![i].pc = "resolved",
                            ![i].project =
                              CASE t.kind = "create" -> <<rec>>
                                [] t.kind = "update" ->
                                     RemoteUpdated(remote, t.id, data)
                                [] OTHER -> <<>>]
        ELSE /\ tasks' = [tasks EXCEPT ![i].pc = "rejected"]
             /\ UNCHANGED <<remote, nextRemote>>
  /\ microtasks' = <<i>>
  /\ UNCHANGED <<local, websimRoom, nextLocal, event, taskFrame>>

NextTasks ==
  \/ \E payload \in Payloads, now \in Times, ctorOk \in BOOLEAN :
       StartCall("create", "", payload, now, ctorOk)
  \/ \E id \in TaskIds, updates \in Updates, now \in Times, ctorOk \in BOOLEAN :
       StartCall("update", id, updates, now, ctorOk)
  \/ \E id \in TaskIds, now \in Times, ctorOk \in BOOLEAN :
       StartCall("delete", id, EmptyObj, now, ctorOk)
  \/ RunMicrotask
  \/ \E i \in 1..MaxTasks, callOk \in BOOLEAN : RemoteSettles(i, callOk)

SpecTasks == InitTasks /\ [][NextTasks]_vars

\* the same program on a device whose storage can be full
NextQuota == Next \/ ExceedQuota

SpecQuota == Init /\ [][NextQuota]_vars


\* -------------------------------------------------- the toggle helper
\* the project store and the accounts before anything has run
StoreIdle ==
  /\ local = <<>>
  /\ remote = <<>>
  /\ quota = FALSE
  /\ user = "null"
  /\ WebsimSocket = FALSE
  /\ websimRoom = FALSE
  /\ nextLocal = 0
  /\ nextRemote = 0
  /\ starts = 0
  /\ sync = NoSync
  /\ event = <<>>
  /\ ret = NoRet
  /\ hist = [local |-> <<>>, remote |-> <<>>, room |-> FALSE, minted |-> "",
             probed |-> FALSE, remoteOk |-> FALSE, wrote |-> FALSE,
             publicOnly |-> FALSE, rerun |-> FALSE, full |-> FALSE,
             updates |-> EmptyObj]
  /\ created = <<>>
  /\ pushLog = <<>>
  /\ tryLog = <<>>
  /\ ghLocal = <<>>
  /\ ghRet = Visible(NoRet)
  /\ noRemote = TRUE
  /\ ops = 0
  /\ accounts = EmptyObj
  /\ acct = NoCall
  /\ owner = NoCall
  /\ tasks = <<>>
  /\ microtasks = <<>>

\* the page as loaded: the hidden inputs carry the value of their markup
InitToggle ==
  /\ StoreIdle
  /\ groups = {}
  /\ hidden \in [HiddenIds -> HiddenValues]
  /\ style = [id \in HiddenIds |-> ""]
  /\ timeouts = <<>>
  /\ pp = NoCall
  /\ lastSet = [id \in HiddenIds |-> "none"]
  /\ learnedPatterns = <<>>
  /\ ai = NoCall

\* what the toggle helper leaves alone
toggleFrame == <<projects, user, accounts, acct, owner, tasks, microtasks,
                 learnedPatterns, ai>>

\* PublicPrivate.init(configs)
PP_init(configs) ==
  /\ LET st == BindAll([groups |-> groups, timeouts |-> timeouts], configs, hidden)
     IN /\ groups' = st.groups
        /\ timeouts' = st.timeouts
  /\ pp' = ToggleCall("init", "", "", "undefined", <<>>)
  /\ UNCHANGED <<hidden, style, lastSet, toggleFrame>>

\* PublicPrivate.ensure(publicBtnId, privateBtnId, hiddenInputId)
PP_ensure(cfg) ==
  /\ LET st == bindGroup([groups |-> groups, timeouts |-> timeouts], cfg, hidden)
     IN /\ groups' = st.groups
        /\ timeouts' = st.timeouts
  /\ pp' = ToggleCall("ensure", cfg.hiddenInputId, "", "group", <<>>)
  /\ UNCHANGED <<hidden, style, lastSet, toggleFrame>>

\* PublicPrivate.setPublic(hiddenInputIdOrKey, makePublic): through the group,
\* else directly on the hidden input, else false
PP_setPublic(key, makePublic) ==
  /\ IF key \in groups
     THEN /\ hidden' = [hidden EXCEPT ![key] = HiddenValue(makePublic)]
          /\ style' = [style EXCEPT ![key] = Visual(makePublic)]
          /\ lastSet' = [lastSet EXCEPT ![key] = HiddenValue(makePublic)]
          /\ pp' = ToggleCall("setPublic", key, makePublic, TRUE,
                              ChangedEvent(key, makePublic))
     ELSE IF key \in DOMAIN hidden
     THEN /\ hidden' = [hidden EXCEPT ![key] = HiddenValue(makePublic)]
          /\ style' = style
          /\ lastSet' = [lastSet EXCEPT ![key] = HiddenValue(makePublic)]
          /\ pp' = ToggleCall("setPublic", key, makePublic, TRUE,
                              ChangedEvent(key, makePublic))
     ELSE /\ pp' = ToggleCall("setPublic", key, makePublic, FALSE, <<>>)
          /\ UNCHANGED <<hidden, style, lastSet>>
  /\ UNCHANGED <<groups, timeouts, toggleFrame>>

\* PublicPrivate.isPublic(hiddenInputIdOrKey)
PP_isPublic(key) ==
  /\ pp' = ToggleCall("isPublic", key, "", isPublic(key, groups, hidden), <<>>)
  /\ UNCHANGED <<groups, hidden, style, timeouts, lastSet, toggleFrame>>

\* a click on the public or the private button of a bound group
Click(key, makePublic) ==
  /\ key \in groups
  /\ hidden' = [hidden EXCEPT ![key] = HiddenValue(makePublic)]
  /\ style' = [style EXCEPT ![key] = Visual(makePublic)]
  /\ lastSet' = [lastSet EXCEPT ![key] = "none"]
  /\ pp' = ToggleCall("click", key, makePublic, "undefined",
                      ChangedEvent(key, makePublic))
  /\ UNCHANGED <<groups, timeouts, toggleFrame>>

\* the oldest pending setTimeout callback runs: setPublicValue(initial, true)
Timeout ==
  /\ timeouts # <<>>
  /\ LET t == Head(timeouts)
     IN /\ hidden' = [hidden EXCEPT ![t.key] = HiddenValue(t.initial)]
        /\ style' = [style EXCEPT ![t.key] = Visual(t.initial)]
        /\ pp' = ToggleCall("timeout", t.key, t.initial, "undefined", <<>>)
  /\ timeouts' = Tail(timeouts)
  /\ UNCHANGED <<groups, lastSet, toggleFrame>>

NextToggle ==
  \/ \E configs \in ConfigLists : PP_init(configs)
  \/ \E cfg \in {ProjConfig, EditConfig} : PP_ensure(cfg)
  \/ \E key \in ToggleIds, makePublic \in BOOLEAN : PP_setPublic(key, makePublic)
  \/ \E key \in ToggleIds : PP_isPublic(key)
  \/ \E key \in HiddenIds, makePublic \in BOOLEAN : Click(key, makePublic)
  \/ Timeout

SpecToggle == InitToggle /\ [][NextToggle]_vars

\* ------------------------------------------------------ the code generator
InitCodeAI == StoreIdle /\ HelpersIdle

\* what the code generator leaves alone
codeFrame == <<projects, user, accounts, acct, owner, tasks, microtasks,
               groups, hidden, style, timeouts, pp, lastSet>>

\* ai.learnPattern(prompt, code)
LearnPattern(prompt, code) ==
  /\ learnedPatterns' = learnPattern(prompt, code, learnedPatterns)
  /\ ai' = AiCall("learnPattern", prompt, code, "undefined")
  /\ UNCHANGED codeFrame

\* ai.generateCode(prompt)
GenerateCode(prompt) ==
  /\ ai' = AiCall("generateCode", prompt, "", generateCode(prompt, learnedPatterns))
  /\ UNCHANGED <<learnedPatterns, codeFrame>>

NextCodeAI ==
  \/ \E prompt \in Prompts, code \in Codes : LearnPattern(prompt, code)
  \/ \E prompt \in Prompts : GenerateCode(prompt)

SpecCodeAI == InitCodeAI /\ [][NextCodeAI]_vars

\* ================================================================ claims
\* the records of arr whose public field is the boolean true
PublicTrue(arr) == SelectSeq(arr, LAMBDA r : Get(r, "public") = "true")

\* C1: sync runs in succession, with no create, update or delete between them,
\* push each local record at most once: a record whose remote create succeeded
\* in an earlier run is not created again by a later run that has listed the
\* remote collection.
C1_SyncPushesOnce ==
  \A i, j \in 1..Len(pushLog) :
    (i < j /\ pushLog[i].idx = pushLog[j].idx) => ~pushLog[j].listed

\* C2 as stated: for every valid payload, getProject(id of the record
\* createProject returned) returns that record, whichever backend created it
\* and whatever the remote does at the time of the get.
C2_RoundTripAlways ==
  (ret.op = "getProject" /\ created # <<>> /\ created[1].valid
     /\ ret.id = created[1].id)
  => (ret.status = "ok" /\ ret.project = <<created[1].project>>)

\* C2 as amended: the round trip holds for a record created in the local store
\* whatever the remote does at the time of the get, and for a record created on
\* the remote when the remote call of the get resolves.
C2_RoundTrip ==
  (ret.op = "getProject" /\ created # <<>> /\ created[1].valid
     /\ ret.id = created[1].id
     /\ (created[1].source = "local" \/ hist.remoteOk))
  => (ret.status = "ok" /\ ret.project = <<created[1].project>>
      /\ ret.source = created[1].source)

C2_Witness ==
  /\ ret.op = "getProject" /\ created # <<>> /\ created[1].valid
  /\ ret.id = created[1].id
  /\ created[1].source = "local" /\ hist.remoteOk
  /\ ret.status = "ok"

\* C3: deleteProject on an id that only the Local Record Store holds removes
\* that record from the Local Record Store, also when the remote is reachable.
C3_DeleteLocalOnly ==
  (ret.op = "deleteProject" /\ ret.status # "raised"
     /\ FindIndex(hist.local, ret.id) # 0
     /\ FindIndex(hist.remote, ret.id) = 0)
  => local = Splice(hist.local, FindIndex(hist.local, ret.id))

\* C4: updateProject with a (non-empty) id that neither backend holds returns
\* a not-found result and leaves the size of the stored collection unchanged.
C4_UpdateUnknownId ==
  (ret.op = "updateProject" /\ ret.id # ""
     /\ FindIndex(hist.local, ret.id) = 0
     /\ FindIndex(hist.remote, ret.id) = 0)
  => (ret.status = "notfound" /\ Len(local) = Len(hist.local))

\* C5: listProjects({publicOnly: true}) returns exactly the records of the
\* backend that served it whose public field is the boolean true.
C5_PublicOnly ==
  (ret.op = "listProjects" /\ hist.publicOnly)
  => ret.list = PublicTrue(IF ret.source = "websim" THEN hist.remote
                           ELSE hist.local)

\* C6: a run of the normaliser directly after another one changes no record
\* and does not write the Local Record Store.
C6_NormalizerFixedPoint ==
  (ret.op = "initializeNexus" /\ hist.rerun)
  => (~hist.wrote /\ local = hist.local /\ sync.arr = hist.local)

C6_Witness ==
  /\ ret.op = "initializeNexus" /\ hist.rerun
  /\ \E i \in 1..Len(local) : Get(local[i], "id") = "L1"
  /\ \E i \in 1..Len(local) :
       Get(local[i], "previewImage") = "null" /\ Get(local[i], "public") = "false"

\* C7: once the normaliser has run, every record of the Local Record Store has
\* a non-empty id and a boolean public field, also after API calls.
C7_LocalRecordsWellFormed ==
  starts > 0
  => \A i \in 1..Len(local) :
       /\ Truthy(Get(local[i], "id"))
       /\ Get(local[i], "public") \in {"true", "false"}

\* C8: as long as no remote call has resolved, the dual-backend store and the
\* local-only store, given the same calls, return the same results and hold the
\* same Local Record Store, and the only errors raised are the argument checks.
C8_SameAsLocalOnly ==
  noRemote
  => /\ ghLocal = local
     /\ ghRet = Visible(ret)
     /\ ret.status = "raised" => ret.id = ""

C8_Witness ==
  /\ noRemote /\ websimRoom
  /\ ret.op = "togglePublic" /\ ret.status = "ok" /\ ret.source = "local"
  /\ \E i \in 1..Len(local) : Get(local[i], "id") = "L2"

\* C9: a createProject served by the local backend returns the freshly minted
\* id whatever the payload carries, public true when the payload leaves it
\* unset, and the store is the new record followed by the previous sequence.
C9_LocalCreate ==
  (ret.op = "createProject" /\ ret.source = "local")
  => /\ Get(ret.project[1], "id") = hist.minted
     /\ Get(ret.project[1], "public") # "undefined"
     /\ local = <<ret.project[1]>> \o hist.local

\* C10 as stated: getProject is the only operation that raises to its caller.
C10_OnlyGetRaises ==
  ret.status = "raised" => ret.op = "getProject"

\* C10 as amended: a call raises exactly when it is getProject, updateProject,
\* deleteProject or togglePublic with an empty id, and it then raises before it
\* asks for the room or writes the Local Record Store.
C10_RaisesOnEmptyId ==
  /\ ret.status = "raised"
       <=> (ret.op \in {"getProject", "updateProject", "deleteProject",
                        "togglePublic"} /\ ret.id = "")
  /\ ret.status = "raised" => (~hist.probed /\ ~hist.wrote /\ local = hist.local)

C10_Witness ==
  ret.op = "getProject" /\ ret.status = "raised" /\ WebsimSocket /\ ~websimRoom

\* C11: when setItem throws during the local path of createProject,
\* updateProject, togglePublic or deleteProject, the call still answers with a
\* success result from the local backend, nothing is raised, and the Local
\* Record Store holds what it held before the call.
C11_WriteFailureKept ==
  (ret.op \in {"createProject", "updateProject", "togglePublic", "deleteProject"}
     /\ hist.wrote /\ hist.full)
  => (ret.status = "ok" /\ ret.source = "local" /\ local = hist.local)

C11_Witness ==
  /\ ret.op = "createProject" /\ hist.wrote /\ hist.full
  /\ Get(ret.project[1], "id") = "L2"
  /\ Len(local) = 2 /\ Get(local[1], "id") = "L1"

\* C12: getProject with a non-empty id answers not-found only when the Local
\* Record Store lacks the id and the remote lacks it or its call failed; a
\* returned record is the one held by the backend the source tag names; and
\* the remote copy is returned when both hold the id and the remote call
\* succeeds.
C12_GetProjectSource ==
  (ret.op = "getProject" /\ ret.id # "")
  => LET l == FindIndex(hist.local, ret.id)
         r == FindIndex(hist.remote, ret.id)
     IN /\ ret.status \in {"ok", "null"}
        /\ ret.status = "null" => (l = 0 /\ (r = 0 \/ ~hist.remoteOk))
        /\ ret.status = "ok" => ret.source \in {"websim", "local"}
        /\ ret.source = "websim"
             => (hist.remoteOk /\ r # 0 /\ ret.project = <<hist.remote[r]>>)
        /\ ret.source = "local" => (l # 0 /\ ret.project = <<hist.local[l]>>)
        /\ (l # 0 /\ r # 0 /\ hist.remoteOk) => ret.source = "websim"

C12_Witness ==
  /\ ret.op = "getProject" /\ ret.id = "R0" /\ hist.remoteOk
  /\ FindIndex(hist.local, "R0") # 0 /\ FindIndex(hist.remote, "R0") # 0
  /\ ret.source = "websim"

\* C13: isOwner answers true exactly when the project and the identifier are
\* both present and non-empty and the project's author equals the identifier
\* ignoring letter case; otherwise it answers false.
C13_IsOwner ==
  owner.op \in {"isOwner", "nexus.isOwner"}
  => /\ owner.result \in {"true", "false"}
     /\ owner.result = "true"
          <=> /\ owner.project # <<>>
              /\ Truthy(owner.identifier)
              /\ ToLowerCase(Or(Get(owner.project[1], "author"), ""))
                   = ToLowerCase(owner.identifier)

\* C14: a createUser that fails (a field missing, or the username taken
\* ignoring case) and a signIn that fails (unknown username or wrong password)
\* leave the accounts and the session marker as they were; signOut leaves no
\* session marker; a successful createUser or signIn sets the session marker to
\* the username given, and nothing else sets it.
C14_Session ==
  [][LET key == ToLowerCase(acct'.username)
     IN /\ (acct'.op = "createUser"
              /\ (~Truthy(acct'.username) \/ ~Truthy(acct'.password)
                    \/ key \in DOMAIN accounts))
             => (accounts' = accounts /\ user' = user)
        /\ (acct'.op = "signIn"
              /\ (key \notin DOMAIN accounts
                    \/ accounts[key].pass # acct'.password))
             => (accounts' = accounts /\ user' = user)
        /\ acct'.op = "signOut" => user' = "null"
        /\ (acct'.op \in {"createUser", "signIn"} /\ acct'.status = "ok")
             => user' = acct'.username
        /\ (user' # user /\ user' # "null")
             => (acct'.op \in {"createUser", "signIn"} /\ acct'.status = "ok"
                   /\ user' = acct'.username)
    ]_vars

C14_Witness ==
  /\ acct.op = "signIn" /\ acct.status = "fail" /\ acct.username = "ann"
  /\ user = "Ann"
  /\ "ann" \in DOMAIN accounts /\ accounts["ann"].pass # acct.password
  /\ Truthy(acct.password)

\* C15: the collection carried by the last "projects updated" event is the
\* content of the Local Record Store (the store only changes in a write that
\* emits the event), and a local write that completed has emitted it.
C15_EventMatchesStore ==
  event # <<>> => event[1] = local

\* C16: a sync pass whose listing of the remote collection failed creates no
\* remote record.
C16_ListFailureAborts ==
  \A i \in 1..Len(pushLog) : pushLog[i].listed

\* C17: one sync pass (here one that listed the remote collection) never
\* creates two remote records for local records with the same title and
\* created_at.
C17_OnePushPerTitle ==
  \A i, j \in 1..Len(pushLog) :
    (i < j /\ pushLog[i].pass = pushLog[j].pass /\ pushLog[j].listed)
    => \/ Get(pushLog[i].localP, "title") # Get(pushLog[j].localP, "title")
       \/ Get(pushLog[i].localP, "created_at")
            # Get(pushLog[j].localP, "created_at")

\* C18: a create, read, update or delete call has its remote call resolve only
\* if the remote capability is present when the call runs.
C18_ReprobesCapability ==
  [][(ops' # ops /\ hist'.remoteOk) => WebsimSocket]_vars

\* C19: when the createProject calls in flight have all returned from the
\* local path, each of the records they answered with is in the Local Record
\* Store.
C19_NoLostCreate ==
  (\A i \in 1..Len(tasks) :
     tasks[i].pc = "done" /\ tasks[i].kind = "create"
       /\ tasks[i].source = "local")
  => \A i \in 1..Len(tasks) :
       \E k \in 1..Len(local) : local[k] = JsonObj(tasks[i].project[1])

\* C20 as stated: every record sync creates on the remote has public true and
\* no previewImage, the local record's title, desc and created_at (a missing
\* one stays empty), and as previewText the local previewText if it has one,
\* else the first 200 characters of desc.
C20_PayloadCopies ==
  \A i \in 1..Len(pushLog) :
    LET p == pushLog[i].localP
        r == remote[pushLog[i].at]
    IN /\ Get(r, "public") = "true"
       /\ ~Truthy(Get(r, "previewImage"))
       /\ Or(Get(r, "title"), "") = Or(Get(p, "title"), "")
       /\ Or(Get(r, "desc"), "") = Or(Get(p, "desc"), "")
       /\ Or(Get(r, "created_at"), "") = Or(Get(p, "created_at"), "")
       /\ Get(r, "previewText")
            = IF Truthy(Get(p, "previewText")) THEN Get(p, "previewText")
              ELSE Slice200(Or(Get(p, "desc"), ""))

\* C20 as amended: as above, except that a local record without a title is
\* sent with the title "Untitled", one without created_at with the time of the
\* sync, and one without previewText with its legacy preview_text if it has
\* one, before the first 200 characters of desc are used.
C20_Payload ==
  \A i \in 1..Len(pushLog) :
    LET p == pushLog[i].localP
        r == remote[pushLog[i].at]
    IN /\ Get(r, "public") = "true"
       /\ Get(r, "previewImage") = "null"
       /\ Get(r, "title") = IF Truthy(Get(p, "title")) THEN Get(p, "title")
                            ELSE "Untitled"
       /\ Get(r, "desc") = IF Truthy(Get(p, "desc")) THEN Get(p, "desc") ELSE ""
       /\ IF Truthy(Get(p, "created_at"))
          THEN Get(r, "created_at") = Get(p, "created_at")
          ELSE Get(r, "created_at") \in Times
       /\ Get(r, "previewText")
            = IF Truthy(Get(p, "previewText")) THEN Get(p, "previewText")
              ELSE IF Truthy(Get(p, "preview_text")) THEN Get(p, "preview_text")
              ELSE IF Get(p, "desc") = LongDesc THEN LongDescHead
              ELSE IF Truthy(Get(p, "desc")) THEN Get(p, "desc") ELSE ""

C20_Witness ==
  \E i \in 1..Len(pushLog) :
    /\ ~Truthy(Get(pushLog[i].localP, "title"))
    /\ Get(remote[pushLog[i].at], "title") = "Untitled"
    /\ \E j \in 1..Len(pushLog) :
         /\ Get(pushLog[j].localP, "public") = "false"
         /\ Get(pushLog[j].localP, "desc") = LongDesc
         /\ Get(remote[pushLog[j].at], "previewText") = LongDescHead

\* C21: from a process start until the next API call, whatever the sync pass
\* of that start does, the Local Record Store holds what the normaliser left:
\* the normalised records if it wrote them, else what was stored before.
C21_SyncLeavesLocal ==
  ret.op = "initializeNexus"
  => local = IF hist.wrote /\ ~hist.full THEN JsonArr(sync.arr) ELSE hist.local

C21_Witness ==
  /\ ret.op = "initializeNexus" /\ sync.pc = "done"
  /\ Len(sync.arr) = 2 /\ Len(tryLog) = 2 /\ Len(pushLog) = 1
  /\ ~tryLog[1].ok /\ tryLog[2].ok
  /\ Len(remote) = 1 /\ Len(local) = 2

\* C22: in the creates sync attempted since the last create, update or delete,
\* a pass attempts each local record at most once; after a failed create the
\* pass does not end before it has attempted every later record that is not
\* already synced; and the pass of the next process start, once it has passed the
\* record whose create failed, has attempted it again unless the remote
\* listing of that pass matches the record.
C22_AttemptsPerPass ==
  /\ \A i, j \in 1..Len(tryLog) :
       (i < j /\ tryLog[i].pass = tryLog[j].pass)
       => tryLog[i].idx < tryLog[j].idx
  /\ \A i \in 1..Len(tryLog) :
       (~tryLog[i].ok /\ tryLog[i].pass = starts)
       => \A m \in (tryLog[i].idx + 1)..Len(sync.arr) :
            (sync.pc = "done" \/ sync.idx > m)
            => \/ AlreadySynced(sync.arr[m], sync.keys)
               \/ \E j \in 1..Len(tryLog) :
                    tryLog[j].pass = starts /\ tryLog[j].idx = m
  /\ \A i \in 1..Len(tryLog) :
       (~tryLog[i].ok /\ tryLog[i].pass = starts - 1
          /\ sync.idx > tryLog[i].idx)
       => \/ AlreadySynced(sync.arr[tryLog[i].idx], sync.keys)
          \/ \E j \in 1..Len(tryLog) :
               tryLog[j].pass = starts /\ tryLog[j].idx = tryLog[i].idx

C22_Witness ==
  \E i, j, k \in 1..Len(tryLog) :
    /\ tryLog[i].pass = 1 /\ tryLog[i].idx = 1 /\ ~tryLog[i].ok
    /\ tryLog[k].pass = 1 /\ tryLog[k].idx = 2
    /\ tryLog[j].pass = 2 /\ tryLog[j].idx = 1

\* C23: a process start is one step in which the normaliser has persisted the
\* records it changed and emitted its event with the records that
\* syncLocalToRemote is then launched on, still before its first remote call;
\* within one process lifetime the sync only moves forward over those same
\* records and is never launched again.
C23_StartOrder ==
  [][ /\ starts' # starts
         => /\ starts' = starts + 1
            /\ sync'.pc = "start" /\ sync'.idx = 0
            /\ event' = <<sync'.arr>>
            /\ local' = IF hist'.wrote /\ ~quota THEN JsonArr(sync'.arr)
                        ELSE local
      /\ (starts' = starts /\ sync' # sync)
         => /\ sync.pc # "done"
            /\ sync'.pc # "start"
            /\ sync'.arr = sync.arr ]_vars

C23_Witness ==
  /\ starts = 1 /\ ret.op = "initializeNexus" /\ hist.wrote
  /\ sync.pc = "done" /\ sync.idx = Len(sync.arr) + 1
  /\ Len(tryLog) >= 1
  /\ event = <<sync.arr>>
  /\ local = JsonArr(sync.arr)

\* C24: after an updateProject or togglePublic answered from the local store,
\* the store has the same number of records, every record other than the first
\* one with the id is the one stored before at the same position, and that
\* record carries every field of the updates, an updated_at, and each of its
\* other previous fields unchanged.
C24_UpdateInPlace ==
  (/\ ret.op \in {"updateProject", "togglePublic"}
   /\ ret.status = "ok" /\ ret.source = "local" /\ ~hist.full)
  => LET old == hist.local
         hits == {i \in 1..Len(old) : Get(old[i], "id") = ret.id}
     IN /\ hits # {}
        /\ Len(local) = Len(old)
        /\ LET idx == CHOOSE i \in hits : \A h \in hits : i <= h
           IN /\ \A i \in 1..Len(old) : i # idx => local[i] = old[i]
              /\ \A k \in DOMAIN hist.updates :
                   k \in DOMAIN local[idx] /\ local[idx][k] = hist.updates[k]
              /\ Truthy(Get(local[idx], "updated_at"))
              /\ \A k \in DOMAIN old[idx] \ (DOMAIN hist.updates \cup {"updated_at"}) :
                   k \in DOMAIN local[idx] /\ local[idx][k] = old[idx][k]

C24_Witness ==
  /\ ret.op = "updateProject" /\ ret.status = "ok" /\ ret.source = "local"
  /\ Len(hist.local) = 2 /\ Len(local) = 2
  /\ Get(hist.local[1], "id") = ret.id
  /\ Get(hist.local[1], "title") = "Demo"
  /\ Get(local[1], "title") = "B"
  /\ Get(local[1], "desc") = "x"
  /\ local[2] = hist.local[2]

\* C25: after a deleteProject answered "ok" from the local store, the store is
\* the one before the call with the first record carrying the id left out
\* (one record fewer, the others at their relative positions); after one
\* answered "notfound" no record before the call carried the id, nothing was
\* written and the store is the one before the call.
C25_DeleteOne ==
  /\ (/\ ret.op = "deleteProject" /\ ret.status = "ok"
      /\ ret.source = "local" /\ ~hist.full)
     => LET old == hist.local
            hits == {i \in 1..Len(old) : Get(old[i], "id") = ret.id}
        IN /\ hits # {}
           /\ Len(local) = Len(old) - 1
           /\ LET idx == CHOOSE i \in hits : \A h \in hits : i <= h
              IN /\ \A i \in 1..(idx - 1) : local[i] = old[i]
                 /\ \A i \in idx..Len(local) : local[i] = old[i + 1]
  /\ (ret.op = "deleteProject" /\ ret.status = "notfound")
     => /\ \A i \in 1..Len(hist.local) : Get(hist.local[i], "id") # ret.id
        /\ ~hist.wrote
        /\ local = hist.local

C25_Witness ==
  /\ ret.op = "deleteProject" /\ ret.status = "ok" /\ ret.source = "local"
  /\ Len(hist.local) = 2 /\ Len(local) = 1
  /\ Get(hist.local[1], "id") = ret.id
  /\ local[1] = hist.local[2]

C25_WitnessNotFound ==
  /\ ret.op = "deleteProject" /\ ret.status = "notfound"
  /\ Len(local) = 2 /\ local = hist.local

C26_WitnessLocal ==
  /\ ret.op = "listProjects" /\ ~hist.remoteOk /\ ~hist.publicOnly
  /\ Len(local) = 2 /\ Len(remote) >= 2
  /\ ret.list = local

\* C27: once the process has started on a store with distinct ids, no two
\* records of the Local Record Store carry the same id, whatever createProject,
\* updateProject, togglePublic and deleteProject calls were made.
C27_UniqueIds ==
  (starts > 0 /\ ~quota)
  => \A i, j \in 1..Len(local) :
       i < j => Get(local[i], "id") # Get(local[j], "id")

\* C28: every remote create issued by syncLocalToRemote is for a record whose
\* id is in the Local Record Store at the moment the create is issued.
C28_NoPushOfDeleted ==
  ~quota => \A i \in 1..Len(pushLog) : pushLog[i].present

\* C29: a createProject, updateProject, togglePublic or deleteProject call
\* answered with source "websim" leaves the Local Record Store as it was and
\* dispatches no "nexus:projects:updated" event.
C29_RemoteLeavesLocal ==
  [][ (/\ ops' = ops + 1
       /\ ret'.op \in {"createProject", "updateProject", "togglePublic",
                       "deleteProject"}
       /\ ret'.source = "websim")
      => (local' = local /\ event' = event) ]_vars

C29_Witness ==
  /\ ret.op = "deleteProject" /\ ret.source = "websim" /\ ret.status = "ok"
  /\ hist.remoteOk /\ ~hist.wrote
  /\ \E i \in 1..Len(local) : Get(local[i], "id") = ret.id
  /\ local = hist.local
  /\ event = <<sync.arr>>

\* C30: whenever a session marker is present, an account is stored under the
\* lower-cased form of the username it names.
C30_SessionHasAccount ==
  user # "null" => ToLowerCase(user) \in DOMAIN accounts

\* the other half of C30: no step changes the stored password of an account
\* that exists
C30_PasswordKept ==
  [][\A k \in DOMAIN accounts :
       k \in DOMAIN accounts' /\ accounts'[k].pass = accounts[k].pass]_vars

\* C31: for a hidden input the page has, once setPublic(id, v) has returned
\* true, isPublic(id) answers v until the next setPublic or button click on
\* the group; the deferred initialisation does not change it.
C31_SetPublicSticks ==
  \A id \in HiddenIds :
    lastSet[id] # "none"
    => isPublic(id, groups, hidden) = (lastSet[id] = "true")

\* C32: generateCode(prompt) returns the code of the last learnPattern call
\* made with that same prompt.
C32_LearnedIsReturned ==
  (ai.op = "generateCode" /\ ai.prompt \in DOMAIN learnedPatterns)
  => ai.result = learnedPatterns[ai.prompt]

=============================================================================
